---- MODULE Spec2Model ----
(***************************************************************************)
(* Telnet option-negotiation decoder (telnet_decoder.py): the stream       *)
(* scanner parse_telnet_data, the payload decoder decode_subnegotiation,   *)
(* the option registry, and the auto-responder loop of main().             *)
(*                                                                         *)
(* Bytes are naturals 0..255, byte strings are sequences of bytes, text    *)
(* strings are sequences of code points.  Python indices are 0-based: At   *)
(* and Slice translate them.                                               *)
(***************************************************************************)
EXTENDS Integers, Sequences, FiniteSets, TLC

VARIABLES
    pc,                    \* control position of the modelled routine
    data,                  \* the buffer being scanned / returned by recv
    i,                     \* scan cursor of parse_telnet_data (0-based)
    messages,              \* events produced by parse_telnet_data
    sub_arg,               \* argument of a direct decode_subnegotiation call
    sub_result,            \* its return value
    negotiation_complete,  \* main(): responder state (FALSE = NEGOTIATING)
    message_count,         \* main(): events processed so far
    k,                     \* main(): events of the current read already processed
    sent,                  \* byte strings written to the socket since the last recv
    stream,                \* a peer's scripted transmission as the reads it arrives in
    reads                  \* how many reads of stream recv has returned

vars == <<pc, data, i, messages, sub_arg, sub_result,
          negotiation_complete, message_count, k, sent, stream, reads>>

\* ------------------------------------------------------------------------
\* Telnet protocol constants
IAC == 255
DONT == 254
DO == 253
WONT == 252
WILL == 251
SB == 250
SE == 240
NOP == 241
DM == 242
BRK == 243
IP == 244
AO == 245
AYT == 246
EC == 247
EL == 248
GA == 249

\* Option codes the responder and the payload decoder single out
OptSGA == 3
OptTType == 24
OptNAWS == 31
OptTSpeed == 32
OptLinemode == 34
OptNewEnv == 39

\* Code point Python substitutes for an undecodable byte (errors='replace')
ReplacementChar == 65533

\* ------------------------------------------------------------------------
\* Text literals of the program, as sequences of code points
OPTIONS ==
    0 :> <<66, 105, 110, 97, 114, 121, 32, 84, 114, 97, 110, 115, 109, 105, 115, 115, 105, 111, 110>> @@  \* "Binary Transmission"
    1 :> <<69, 99, 104, 111>> @@  \* "Echo"
    2 :> <<82, 101, 99, 111, 110, 110, 101, 99, 116, 105, 111, 110>> @@  \* "Reconnection"
    3 :> <<83, 117, 112, 112, 114, 101, 115, 115, 32, 71, 111, 32, 65, 104, 101, 97, 100>> @@  \* "Suppress Go Ahead"
    4 :> <<65, 112, 112, 114, 111, 120, 32, 77, 101, 115, 115, 97, 103, 101, 32, 83, 105, 122, 101, 32, 78, 101, 103, 111, 116, 105, 97, 116, 105, 111, 110>> @@  \* "Approx Message Size Negotiation"
    5 :> <<83, 116, 97, 116, 117, 115>> @@  \* "Status"
    6 :> <<84, 105, 109, 105, 110, 103, 32, 77, 97, 114, 107>> @@  \* "Timing Mark"
    7 :> <<82, 101, 109, 111, 116, 101, 32, 67, 111, 110, 116, 114, 111, 108, 108, 101, 100, 32, 84, 114, 97, 110, 115, 32, 97, 110, 100, 32, 69, 99, 104, 111>> @@  \* "Remote Controlled Trans and Echo"
    8 :> <<79, 117, 116, 112, 117, 116, 32, 76, 105, 110, 101, 32, 87, 105, 100, 116, 104>> @@  \* "Output Line Width"
    9 :> <<79, 117, 116, 112, 117, 116, 32, 80, 97, 103, 101, 32, 83, 105, 122, 101>> @@  \* "Output Page Size"
    10 :> <<79, 117, 116, 112, 117, 116, 32, 67, 97, 114, 114, 105, 97, 103, 101, 45, 82, 101, 116, 117, 114, 110, 32, 68, 105, 115, 112, 111, 115, 105, 116, 105, 111, 110>> @@  \* "Output Carriage-Return Disposition"
    11 :> <<79, 117, 116, 112, 117, 116, 32, 72, 111, 114, 105, 122, 111, 110, 116, 97, 108, 32, 84, 97, 98, 32, 83, 116, 111, 112, 115>> @@  \* "Output Horizontal Tab Stops"
    12 :> <<79, 117, 116, 112, 117, 116, 32, 72, 111, 114, 105, 122, 111, 110, 116, 97, 108, 32, 84, 97, 98, 32, 68, 105, 115, 112, 111, 115, 105, 116, 105, 111, 110>> @@  \* "Output Horizontal Tab Disposition"
    13 :> <<79, 117, 116, 112, 117, 116, 32, 70, 111, 114, 109, 102, 101, 101, 100, 32, 68, 105, 115, 112, 111, 115, 105, 116, 105, 111, 110>> @@  \* "Output Formfeed Disposition"
    14 :> <<79, 117, 116, 112, 117, 116, 32, 86, 101, 114, 116, 105, 99, 97, 108, 32, 84, 97, 98, 115, 116, 111, 112, 115>> @@  \* "Output Vertical Tabstops"
    15 :> <<79, 117, 116, 112, 117, 116, 32, 86, 101, 114, 116, 105, 99, 97, 108, 32, 84, 97, 98, 32, 68, 105, 115, 112, 111, 115, 105, 116, 105, 111, 110>> @@  \* "Output Vertical Tab Disposition"
    16 :> <<79, 117, 116, 112, 117, 116, 32, 76, 105, 110, 101, 102, 101, 101, 100, 32, 68, 105, 115, 112, 111, 115, 105, 116, 105, 111, 110>> @@  \* "Output Linefeed Disposition"
    17 :> <<69, 120, 116, 101, 110, 100, 101, 100, 32, 65, 83, 67, 73, 73>> @@  \* "Extended ASCII"
    18 :> <<76, 111, 103, 111, 117, 116>> @@  \* "Logout"
    19 :> <<66, 121, 116, 101, 32, 77, 97, 99, 114, 111>> @@  \* "Byte Macro"
    20 :> <<68, 97, 116, 97, 32, 69, 110, 116, 114, 121, 32, 84, 101, 114, 109, 105, 110, 97, 108>> @@  \* "Data Entry Terminal"
    21 :> <<83, 85, 80, 68, 85, 80>> @@  \* "SUPDUP"
    22 :> <<83, 85, 80, 68, 85, 80, 32, 79, 117, 116, 112, 117, 116>> @@  \* "SUPDUP Output"
    23 :> <<83, 101, 110, 100, 32, 76, 111, 99, 97, 116, 105, 111, 110>> @@  \* "Send Location"
    24 :> <<84, 101, 114, 109, 105, 110, 97, 108, 32, 84, 121, 112, 101>> @@  \* "Terminal Type"
    25 :> <<69, 110, 100, 32, 111, 102, 32, 82, 101, 99, 111, 114, 100>> @@  \* "End of Record"
    26 :> <<84, 65, 67, 65, 67, 83, 32, 85, 115, 101, 114, 32, 73, 100, 101, 110, 116, 105, 102, 105, 99, 97, 116, 105, 111, 110>> @@  \* "TACACS User Identification"
    27 :> <<79, 117, 116, 112, 117, 116, 32, 77, 97, 114, 107, 105, 110, 103>> @@  \* "Output Marking"
    28 :> <<84, 101, 114, 109, 105, 110, 97, 108, 32, 76, 111, 99, 97, 116, 105, 111, 110, 32, 78, 117, 109, 98, 101, 114>> @@  \* "Terminal Location Number"
    29 :> <<84, 101, 108, 110, 101, 116, 32, 51, 50, 55, 48, 32, 82, 101, 103, 105, 109, 101>> @@  \* "Telnet 3270 Regime"
    30 :> <<88, 46, 51, 32, 80, 65, 68>> @@  \* "X.3 PAD"
    31 :> <<78, 101, 103, 111, 116, 105, 97, 116, 101, 32, 65, 98, 111, 117, 116, 32, 87, 105, 110, 100, 111, 119, 32, 83, 105, 122, 101>> @@  \* "Negotiate About Window Size"
    32 :> <<84, 101, 114, 109, 105, 110, 97, 108, 32, 83, 112, 101, 101, 100>> @@  \* "Terminal Speed"
    33 :> <<82, 101, 109, 111, 116, 101, 32, 70, 108, 111, 119, 32, 67, 111, 110, 116, 114, 111, 108>> @@  \* "Remote Flow Control"
    34 :> <<76, 105, 110, 101, 109, 111, 100, 101>> @@  \* "Linemode"
    35 :> <<88, 32, 68, 105, 115, 112, 108, 97, 121, 32, 76, 111, 99, 97, 116, 105, 111, 110>> @@  \* "X Display Location"
    36 :> <<69, 110, 118, 105, 114, 111, 110, 109, 101, 110, 116, 32, 79, 112, 116, 105, 111, 110>> @@  \* "Environment Option"
    37 :> <<65, 117, 116, 104, 101, 110, 116, 105, 99, 97, 116, 105, 111, 110, 32, 79, 112, 116, 105, 111, 110>> @@  \* "Authentication Option"
    38 :> <<69, 110, 99, 114, 121, 112, 116, 105, 111, 110, 32, 79, 112, 116, 105, 111, 110>> @@  \* "Encryption Option"
    39 :> <<78, 101, 119, 32, 69, 110, 118, 105, 114, 111, 110, 109, 101, 110, 116, 32, 79, 112, 116, 105, 111, 110>> @@  \* "New Environment Option"
    40 :> <<84, 78, 51, 50, 55, 48, 69>> @@  \* "TN3270E"
    41 :> <<88, 65, 85, 84, 72>> @@  \* "XAUTH"
    42 :> <<67, 72, 65, 82, 83, 69, 84>> @@  \* "CHARSET"
    43 :> <<84, 101, 108, 110, 101, 116, 32, 82, 101, 109, 111, 116, 101, 32, 83, 101, 114, 105, 97, 108, 32, 80, 111, 114, 116>> @@  \* "Telnet Remote Serial Port"
    44 :> <<67, 111, 109, 32, 80, 111, 114, 116, 32, 67, 111, 110, 116, 114, 111, 108, 32, 79, 112, 116, 105, 111, 110>> @@  \* "Com Port Control Option"
    45 :> <<84, 101, 108, 110, 101, 116, 32, 83, 117, 112, 112, 114, 101, 115, 115, 32, 76, 111, 99, 97, 108, 32, 69, 99, 104, 111>> @@  \* "Telnet Suppress Local Echo"
    46 :> <<84, 101, 108, 110, 101, 116, 32, 83, 116, 97, 114, 116, 32, 84, 76, 83>> @@  \* "Telnet Start TLS"
    47 :> <<75, 69, 82, 77, 73, 84>> @@  \* "KERMIT"
    48 :> <<83, 69, 78, 68, 45, 85, 82, 76>> @@  \* "SEND-URL"
    49 :> <<70, 79, 82, 87, 65, 82, 68, 95, 88>> @@  \* "FORWARD_X"
    138 :> <<84, 69, 76, 79, 80, 84, 32, 80, 82, 65, 71, 77, 65, 32, 76, 79, 71, 79, 78>> @@  \* "TELOPT PRAGMA LOGON"
    139 :> <<84, 69, 76, 79, 80, 84, 32, 83, 83, 80, 73, 32, 76, 79, 71, 79, 78>> @@  \* "TELOPT SSPI LOGON"
    140 :> <<84, 69, 76, 79, 80, 84, 32, 80, 82, 65, 71, 77, 65, 32, 72, 69, 65, 82, 84, 66, 69, 65, 84>>  \* "TELOPT PRAGMA HEARTBEAT"

commands ==
    IAC :> <<73, 65, 67>> @@  \* "IAC"
    DONT :> <<68, 79, 78, 84>> @@  \* "DONT"
    DO :> <<68, 79>> @@  \* "DO"
    WONT :> <<87, 79, 78, 84>> @@  \* "WONT"
    WILL :> <<87, 73, 76, 76>> @@  \* "WILL"
    SB :> <<83, 66, 32, 40, 83, 117, 98, 110, 101, 103, 111, 116, 105, 97, 116, 105, 111, 110, 32, 66, 101, 103, 105, 110, 41>> @@  \* "SB (Subnegotiation Begin)"
    SE :> <<83, 69, 32, 40, 83, 117, 98, 110, 101, 103, 111, 116, 105, 97, 116, 105, 111, 110, 32, 69, 110, 100, 41>> @@  \* "SE (Subnegotiation End)"
    NOP :> <<78, 79, 80>> @@  \* "NOP"
    DM :> <<68, 77, 32, 40, 68, 97, 116, 97, 32, 77, 97, 114, 107, 41>> @@  \* "DM (Data Mark)"
    BRK :> <<66, 82, 75, 32, 40, 66, 114, 101, 97, 107, 41>> @@  \* "BRK (Break)"
    IP :> <<73, 80, 32, 40, 73, 110, 116, 101, 114, 114, 117, 112, 116, 32, 80, 114, 111, 99, 101, 115, 115, 41>> @@  \* "IP (Interrupt Process)"
    AO :> <<65, 79, 32, 40, 65, 98, 111, 114, 116, 32, 79, 117, 116, 112, 117, 116, 41>> @@  \* "AO (Abort Output)"
    AYT :> <<65, 89, 84, 32, 40, 65, 114, 101, 32, 89, 111, 117, 32, 84, 104, 101, 114, 101, 41>> @@  \* "AYT (Are You There)"
    EC :> <<69, 67, 32, 40, 69, 114, 97, 115, 101, 32, 67, 104, 97, 114, 97, 99, 116, 101, 114, 41>> @@  \* "EC (Erase Character)"
    EL :> <<69, 76, 32, 40, 69, 114, 97, 115, 101, 32, 76, 105, 110, 101, 41>> @@  \* "EL (Erase Line)"
    GA :> <<71, 65, 32, 40, 71, 111, 32, 65, 104, 101, 97, 100, 41>>  \* "GA (Go Ahead)"

StrUnknownOption == <<85, 110, 107, 110, 111, 119, 110, 32, 79, 112, 116, 105, 111, 110, 32>>  \* "Unknown Option "
StrUnknownCommand == <<85, 110, 107, 110, 111, 119, 110, 32, 67, 111, 109, 109, 97, 110, 100, 32>>  \* "Unknown Command "
StrUnknown == <<85, 110, 107, 110, 111, 119, 110>>  \* "Unknown"
StrEmptySub == <<69, 109, 112, 116, 121, 32, 115, 117, 98, 110, 101, 103, 111, 116, 105, 97, 116, 105, 111, 110>>  \* "Empty subnegotiation"
StrTTypeIs == <<84, 101, 114, 109, 105, 110, 97, 108, 32, 84, 121, 112, 101, 32, 73, 83, 58, 32>>  \* "Terminal Type IS: "
StrTTypeSend == <<84, 101, 114, 109, 105, 110, 97, 108, 32, 84, 121, 112, 101, 32, 83, 69, 78, 68, 32, 40, 114, 101, 113, 117, 101, 115, 116, 32, 102, 111, 114, 32, 116, 101, 114, 109, 105, 110, 97, 108, 32, 116, 121, 112, 101, 41>>  \* "Terminal Type SEND (request for terminal type)"
StrTTypeSub == <<84, 101, 114, 109, 105, 110, 97, 108, 32, 84, 121, 112, 101, 32, 115, 117, 98, 110, 101, 103, 111, 116, 105, 97, 116, 105, 111, 110, 58, 32>>  \* "Terminal Type subnegotiation: "
StrWinSize == <<87, 105, 110, 100, 111, 119, 32, 83, 105, 122, 101, 58, 32>>  \* "Window Size: "
StrX == <<120>>  \* "x"
StrWinSizeSub == <<87, 105, 110, 100, 111, 119, 32, 83, 105, 122, 101, 32, 115, 117, 98, 110, 101, 103, 111, 116, 105, 97, 116, 105, 111, 110, 58, 32>>  \* "Window Size subnegotiation: "
StrTSpeedIs == <<84, 101, 114, 109, 105, 110, 97, 108, 32, 83, 112, 101, 101, 100, 32, 73, 83, 58, 32>>  \* "Terminal Speed IS: "
StrTSpeedSub == <<84, 101, 114, 109, 105, 110, 97, 108, 32, 83, 112, 101, 101, 100, 32, 115, 117, 98, 110, 101, 103, 111, 116, 105, 97, 116, 105, 111, 110, 58, 32>>  \* "Terminal Speed subnegotiation: "
StrNewEnv == <<78, 101, 119, 32, 69, 110, 118, 105, 114, 111, 110, 109, 101, 110, 116, 32>>  \* "New Environment "
StrColon == <<58, 32>>  \* ": "
StrNewEnvSub == <<78, 101, 119, 32, 69, 110, 118, 105, 114, 111, 110, 109, 101, 110, 116, 32, 115, 117, 98, 110, 101, 103, 111, 116, 105, 97, 116, 105, 111, 110, 58, 32>>  \* "New Environment subnegotiation: "
StrSub == <<32, 115, 117, 98, 110, 101, 103, 111, 116, 105, 97, 116, 105, 111, 110, 58, 32>>  \* " subnegotiation: "
StrIS == <<73, 83>>  \* "IS"
StrSEND == <<83, 69, 78, 68>>  \* "SEND"
StrINFO == <<73, 78, 70, 79>>  \* "INFO"
StrWelcome == <<87, 101, 108, 99, 111, 109, 101>>  \* "Welcome"
StrLogin == <<108, 111, 103, 105, 110, 58>>  \* "login:"
StrTTypeSendMark == <<84, 101, 114, 109, 105, 110, 97, 108, 32, 84, 121, 112, 101, 32, 83, 69, 78, 68>>  \* "Terminal Type SEND"
StrXterm == <<120, 116, 101, 114, 109>>  \* "xterm"
StrDO == <<68, 79>>  \* "DO"
StrWILL == <<87, 73, 76, 76>>  \* "WILL"
StrTerminalType == <<84, 101, 114, 109, 105, 110, 97, 108, 32, 84, 121, 112, 101>>  \* "Terminal Type"
StrSGA == <<83, 117, 112, 112, 114, 101, 115, 115, 32, 71, 111, 32, 65, 104, 101, 97, 100>>  \* "Suppress Go Ahead"
StrNAWS == <<78, 101, 103, 111, 116, 105, 97, 116, 101, 32, 65, 98, 111, 117, 116, 32, 87, 105, 110, 100, 111, 119, 32, 83, 105, 122, 101>>  \* "Negotiate About Window Size"
StrLinemode == <<76, 105, 110, 101, 109, 111, 100, 101>>  \* "Linemode"

\* ------------------------------------------------------------------------
\* Python sequence primitives

Min(a, b) == IF a < b THEN a ELSE b

\* seq[n] raises IndexError unless -len <= n < len
IndexOK(seq, n) == -Len(seq) <= n /\ n < Len(seq)

\* seq[n] for an index that is in range
At(seq, n) == IF n >= 0 THEN seq[n + 1] ELSE seq[Len(seq) + n + 1]

\* seq[a:b] for a, b >= 0: slices clamp, they never raise
Slice(seq, a, b) ==
    LET hi == Min(b, Len(seq))
        lo == Min(a, Len(seq))
    IN  IF lo >= hi THEN <<>> ELSE SubSeq(seq, lo + 1, hi)

\* needle in haystack (substring test)
Contains(haystack, needle) ==
    \E p \in 0..(Len(haystack) - Len(needle)) :
        Slice(haystack, p, p + Len(needle)) = needle

RECURSIVE Flatten(_)
Flatten(seqs) == IF seqs = <<>> THEN <<>> ELSE Head(seqs) \o Flatten(Tail(seqs))

\* str(n) for n >= 0
RECURSIVE Dec(_)
Dec(n) == IF n < 10 THEN <<48 + n>> ELSE Dec(n \div 10) \o <<48 + (n % 10)>>

HexDigit(d) == IF d < 10 THEN 48 + d ELSE 87 + d

\* bytes.decode('ascii', errors='ignore'): undecodable bytes are dropped
IsAscii(b) == b < 128
DecodeAsciiIgnore(bytes) == SelectSeq(bytes, IsAscii)

\* bytes.decode('ascii', errors='replace'): undecodable bytes become U+FFFD
DecodeAsciiReplace(bytes) ==
    [n \in 1..Len(bytes) |-> IF bytes[n] < 128 THEN bytes[n] ELSE ReplacementChar]

\* str.lower() on ASCII text (U+FFFD has no lower case)
Lower(text) ==
    [n \in 1..Len(text) |-> IF text[n] >= 65 /\ text[n] <= 90 THEN text[n] + 32 ELSE text[n]]

\* The quote repr() picks: " when the value holds ' and no ", else '
ReprQuote(seq) ==
    IF (\E n \in 1..Len(seq) : seq[n] = 39) /\ ~(\E n \in 1..Len(seq) : seq[n] = 34)
    THEN 34 ELSE 39

\* One element of repr(): escapes shared by str and bytes
ReprEscape(c, quote, hexFrom) ==
    IF c = quote \/ c = 92 THEN <<92, c>>
    ELSE IF c = 9 THEN <<92, 116>>
    ELSE IF c = 10 THEN <<92, 110>>
    ELSE IF c = 13 THEN <<92, 114>>
    ELSE IF c < 32 \/ (c >= 127 /\ c < hexFrom) THEN <<92, 120, HexDigit(c \div 16), HexDigit(c % 16)>>
    ELSE <<c>>

\* repr(b) of a bytes object: b'...' with every byte >= 0x7f hex-escaped
BytesRepr(bytes) ==
    LET q == ReprQuote(bytes)
    IN  <<98, q>> \o Flatten([n \in 1..Len(bytes) |-> ReprEscape(bytes[n], q, 256)]) \o <<q>>

\* repr(s) of decoded text: only DEL is escaped above 0x7e (U+FFFD is printable)
StrRepr(text) ==
    LET q == ReprQuote(text)
    IN  <<q>> \o Flatten([n \in 1..Len(text) |-> ReprEscape(text[n], q, 128)]) \o <<q>>

\* ------------------------------------------------------------------------
\* Option registry and command names

get_option_name(code) ==
    IF code \in DOMAIN OPTIONS THEN OPTIONS[code] ELSE StrUnknownOption \o Dec(code)

decode_command(cmd) ==
    IF cmd \in DOMAIN commands THEN commands[cmd] ELSE StrUnknownCommand \o Dec(cmd)

TTYPE_COMMANDS == 1 :> StrIS @@ 2 :> StrSEND

NEW_ENV_COMMANDS == 0 :> StrIS @@ 1 :> StrSEND @@ 2 :> StrINFO

\* ------------------------------------------------------------------------
\* decode_subnegotiation: result [text, err]; err is an IndexError raised by
\* one of its indexed reads

Decoded(text) == [text |-> text, err |-> FALSE]
Raised == [text |-> <<>>, err |-> TRUE]

\* "if not data" / "if sub_data": emptiness tests guarding [0]
NonEmpty(seq) == Len(seq) > 0

\* "if len(sub_data) >= 4" guarding sub_data[0..3]
WindowSizeComplete(sub_data) == Len(sub_data) >= 4

\* DecodeTerminalType reading its sub-commands from TTYPE_COMMANDS
\* (1 = IS, 2 = SEND)
DecodeTerminalTypeByTable(sub_data) ==
    IF NonEmpty(sub_data) /\ At(sub_data, 0) \in DOMAIN TTYPE_COMMANDS THEN
        IF TTYPE_COMMANDS[At(sub_data, 0)] = StrIS THEN
            Decoded(StrTTypeIs \o DecodeAsciiIgnore(Slice(sub_data, 1, Len(sub_data))))
        ELSE Decoded(StrTTypeSend)
    ELSE Decoded(StrTTypeSub \o BytesRepr(sub_data))

DecodeTerminalType(sub_data) ==
    IF NonEmpty(sub_data) THEN
        IF ~IndexOK(sub_data, 0) THEN Raised
        ELSE LET cmd == At(sub_data, 0) IN
            IF cmd = 0 THEN
                Decoded(StrTTypeIs \o DecodeAsciiIgnore(Slice(sub_data, 1, Len(sub_data))))
            ELSE IF cmd = 1 THEN Decoded(StrTTypeSend)
            ELSE Decoded(StrTTypeSub \o BytesRepr(sub_data))
    ELSE Decoded(StrTTypeSub \o BytesRepr(sub_data))

\* DecodeWindowSize taking the low byte of each pair first
DecodeWindowSizeLittleEndian(sub_data) ==
    IF WindowSizeComplete(sub_data) THEN
        IF \E n \in 0..3 : ~IndexOK(sub_data, n) THEN Raised
        ELSE LET width == (At(sub_data, 1) * 256) + At(sub_data, 0)
                 height == (At(sub_data, 3) * 256) + At(sub_data, 2)
             IN  Decoded(StrWinSize \o Dec(width) \o StrX \o Dec(height))
    ELSE Decoded(StrWinSizeSub \o BytesRepr(sub_data))

DecodeWindowSize(sub_data) ==
    IF WindowSizeComplete(sub_data) THEN
        IF \E n \in 0..3 : ~IndexOK(sub_data, n) THEN Raised
        ELSE LET width == (At(sub_data, 0) * 256) + At(sub_data, 1)
                 height == (At(sub_data, 2) * 256) + At(sub_data, 3)
             IN  Decoded(StrWinSize \o Dec(width) \o StrX \o Dec(height))
    ELSE Decoded(StrWinSizeSub \o BytesRepr(sub_data))

DecodeTerminalSpeed(sub_data) ==
    IF NonEmpty(sub_data) THEN
        IF ~IndexOK(sub_data, 0) THEN Raised
        ELSE IF At(sub_data, 0) = 0 THEN
            Decoded(StrTSpeedIs \o DecodeAsciiIgnore(Slice(sub_data, 1, Len(sub_data))))
        ELSE Decoded(StrTSpeedSub \o BytesRepr(sub_data))
    ELSE Decoded(StrTSpeedSub \o BytesRepr(sub_data))

DecodeNewEnvironment(sub_data) ==
    IF NonEmpty(sub_data) THEN
        IF ~IndexOK(sub_data, 0) THEN Raised
        ELSE LET cmd == At(sub_data, 0) IN
            IF cmd \in DOMAIN NEW_ENV_COMMANDS THEN
                Decoded(StrNewEnv \o NEW_ENV_COMMANDS[cmd] \o StrColon
                        \o DecodeAsciiIgnore(Slice(sub_data, 1, Len(sub_data))))
            ELSE Decoded(StrNewEnvSub \o BytesRepr(sub_data))
    ELSE Decoded(StrNewEnvSub \o BytesRepr(sub_data))

decode_subnegotiation(payload) ==
    IF ~NonEmpty(payload) THEN Decoded(StrEmptySub)
    ELSE IF ~IndexOK(payload, 0) THEN Raised
    ELSE LET option == At(payload, 0)
             sub_data == Slice(payload, 1, Len(payload))
         IN  IF option = OptTType THEN DecodeTerminalType(sub_data)
             ELSE IF option = OptNAWS THEN DecodeWindowSize(sub_data)
             ELSE IF option = OptTSpeed THEN DecodeTerminalSpeed(sub_data)
             ELSE IF option = OptNewEnv THEN DecodeNewEnvironment(sub_data)
             ELSE Decoded(get_option_name(option) \o StrSub \o BytesRepr(sub_data))

\* ------------------------------------------------------------------------
\* parse_telnet_data: one iteration of the outer loop is LoopBody

\* "while i < len(data)", also the bound of the data run
InBuffer(buf, n) == n < Len(buf)

\* "if i + 1 < len(data)": a command byte follows IAC
HasCommandByte(buf, n) == n + 1 < Len(buf)

\* HasOptionByte with "<=" for "<"
HasOptionByteInclusive(buf, n) == n + 2 <= Len(buf)

\* "if i + 2 < len(data)": an option byte follows IAC <negotiation>
HasOptionByte(buf, n) == n + 2 < Len(buf)

\* IsNegotiation without WONT
IsNegotiationNoWont(cmd) == cmd \in {DO, DONT, WILL}

\* "cmd in (DO, DONT, WILL, WONT)"
IsNegotiation(cmd) == cmd \in {DO, DONT, WILL, WONT}

\* SearchLimit with the search running to the last byte
SearchLimitWholeBuffer(buf) == Len(buf)

\* "while j < len(data) - 1": last position at which IAC SE is looked for
SearchLimit(buf) == Len(buf) - 1

\* SearchSE reading IAC IAC as an escaped data byte and stepping over the pair
RECURSIVE SearchSEUnescaping(_, _)
SearchSEUnescaping(buf, j) ==
    IF j < SearchLimit(buf) THEN
        IF ~IndexOK(buf, j) THEN [found |-> FALSE, j |-> j, err |-> TRUE]
        ELSE IF At(buf, j) = IAC THEN
            IF ~IndexOK(buf, j + 1) THEN [found |-> FALSE, j |-> j, err |-> TRUE]
            ELSE IF At(buf, j + 1) = SE THEN [found |-> TRUE, j |-> j, err |-> FALSE]
            ELSE IF At(buf, j + 1) = IAC THEN SearchSEUnescaping(buf, j + 2)
            ELSE SearchSEUnescaping(buf, j + 1)
        ELSE SearchSEUnescaping(buf, j + 1)
    ELSE [found |-> FALSE, j |-> j, err |-> FALSE]

\* The search for the matching SE from j on: [found, j, err]
RECURSIVE SearchSE(_, _)
SearchSE(buf, j) ==
    IF j < SearchLimit(buf) THEN
        IF ~IndexOK(buf, j) THEN [found |-> FALSE, j |-> j, err |-> TRUE]
        ELSE IF At(buf, j) = IAC THEN
            IF ~IndexOK(buf, j + 1) THEN [found |-> FALSE, j |-> j, err |-> TRUE]
            ELSE IF At(buf, j + 1) = SE THEN [found |-> TRUE, j |-> j, err |-> FALSE]
            ELSE SearchSE(buf, j + 1)
        ELSE SearchSE(buf, j + 1)
    ELSE [found |-> FALSE, j |-> j, err |-> FALSE]

\* UnterminatedCursor one past the end of the buffer
UnterminatedCursorPastEnd(buf, n) == Len(buf) + 1

\* UnterminatedCursor skipping only the two bytes IAC SB
UnterminatedCursorPastHeader(buf, n) == n + 2

\* "i = len(data)": where the cursor goes when no matching SE is found
UnterminatedCursor(buf, n) == Len(buf)

\* DataEnd with "if" in place of "while": the run ends after one byte
DataEndOneByte(buf, n) ==
    IF InBuffer(buf, n) /\ IndexOK(buf, n) /\ At(buf, n) # IAC THEN n + 1 ELSE n

\* The inner data loop: "while i < len(data) and data[i] != IAC: i += 1"
RECURSIVE DataEnd(_, _)
DataEnd(buf, n) ==
    IF InBuffer(buf, n) /\ IndexOK(buf, n) /\ At(buf, n) # IAC
    THEN DataEnd(buf, n + 1) ELSE n

\* NegotiationMsg with raw one byte short
NegotiationMsgShortRaw(buf, n) ==
    [type |-> "negotiation", direction |-> "Server",
     command |-> decode_command(At(buf, n + 1)),
     option |-> get_option_name(At(buf, n + 2)),
     raw |-> Slice(buf, n, n + 2)]

\* NegotiationMsg naming the option from the command byte
NegotiationMsgOptionFromCommand(buf, n) ==
    [type |-> "negotiation", direction |-> "Server",
     command |-> decode_command(At(buf, n + 1)),
     option |-> get_option_name(At(buf, n + 1)),
     raw |-> Slice(buf, n, n + 3)]

NegotiationMsg(buf, n) ==
    [type |-> "negotiation", direction |-> "Server",
     command |-> decode_command(At(buf, n + 1)),
     option |-> get_option_name(At(buf, n + 2)),
     raw |-> Slice(buf, n, n + 3)]

\* SubnegotiationMsg with raw ending before the terminator
SubnegotiationMsgNoTerminator(buf, n, j) ==
    LET sub_data == Slice(buf, n + 2, j)
        decoded == decode_subnegotiation(sub_data)
    IN  [err |-> decoded.err,
         msg |-> [type |-> "subnegotiation", direction |-> "Server",
                  option |-> IF NonEmpty(sub_data)
                             THEN get_option_name(At(sub_data, 0)) ELSE StrUnknown,
                  data |-> decoded.text,
                  raw |-> Slice(buf, n, j)]]

\* The event for IAC SB at n with IAC SE found at j: [msg, err]
SubnegotiationMsg(buf, n, j) ==
    LET sub_data == Slice(buf, n + 2, j)
        decoded == decode_subnegotiation(sub_data)
    IN  [err |-> decoded.err \/ (NonEmpty(sub_data) /\ ~IndexOK(sub_data, 0)),
         msg |-> [type |-> "subnegotiation", direction |-> "Server",
                  option |-> IF NonEmpty(sub_data) /\ IndexOK(sub_data, 0)
                             THEN get_option_name(At(sub_data, 0)) ELSE StrUnknown,
                  data |-> decoded.text,
                  raw |-> Slice(buf, n, j + 2)]]

CommandMsg(buf, n) ==
    [type |-> "command", direction |-> "Server",
     command |-> decode_command(At(buf, n + 1)),
     raw |-> Slice(buf, n, n + 2)]

\* The event for the data run [start, end)
DataMsg(buf, start, end) ==
    LET text == DecodeAsciiReplace(Slice(buf, start, end))
    IN  [type |-> "data", direction |-> "Server",
         data |-> IF \E n \in 1..Len(text) : text[n] < 32 THEN StrRepr(text) ELSE text,
         raw |-> Slice(buf, start, end)]

Step(branch, next, emit) == [branch |-> branch, i |-> next, emit |-> emit, err |-> FALSE]
Raise(branch, n) == [branch |-> branch, i |-> n, emit |-> <<>>, err |-> TRUE]

\* One iteration at cursor n: the branch taken, the new cursor, the event
\* appended (if any), and whether an indexed read raised IndexError
LoopBody(buf, n) ==
    IF ~IndexOK(buf, n) THEN Raise("data", n)
    ELSE IF At(buf, n) = IAC THEN
        IF HasCommandByte(buf, n) THEN
            IF ~IndexOK(buf, n + 1) THEN Raise("command", n)
            ELSE LET cmd == At(buf, n + 1) IN
                IF IsNegotiation(cmd) THEN
                    IF HasOptionByte(buf, n) THEN
                        IF ~IndexOK(buf, n + 2) THEN Raise("negotiation", n)
                        ELSE Step("negotiation", n + 3, <<NegotiationMsg(buf, n)>>)
                    ELSE Step("negotiation_truncated", n + 2, <<>>)
                ELSE IF cmd = SB THEN
                    LET s == SearchSE(buf, n + 2) IN
                        IF s.err THEN Raise("subnegotiation", n)
                        ELSE IF s.found THEN
                            LET m == SubnegotiationMsg(buf, n, s.j) IN
                                IF m.err THEN Raise("subnegotiation", n)
                                ELSE Step("subnegotiation", s.j + 2, <<m.msg>>)
                        ELSE Step("subnegotiation_unterminated", UnterminatedCursor(buf, n), <<>>)
                ELSE Step("command", n + 2, <<CommandMsg(buf, n)>>)
        ELSE Step("iac_truncated", n + 1, <<>>)
    ELSE LET end == DataEnd(buf, n) IN
        IF end > n THEN Step("data", end, <<DataMsg(buf, n, end)>>)
        ELSE Step("data", end, <<>>)

\* The whole scan from cursor n with msgs already emitted: [messages, err]
RECURSIVE ScanFrom(_, _, _)
ScanFrom(buf, n, msgs) ==
    IF InBuffer(buf, n) THEN
        LET r == LoopBody(buf, n) IN
            IF r.err THEN [messages |-> msgs, err |-> TRUE]
            ELSE ScanFrom(buf, r.i, msgs \o r.emit)
    ELSE [messages |-> msgs, err |-> FALSE]

parse_telnet_data(buf) == ScanFrom(buf, 0, <<>>)

\* ------------------------------------------------------------------------
\* Inputs

\* Byte strings the inputs are assembled from
MaxChunks == 3
Chunks ==
    { <<IAC>>, <<SB>>, <<SE>>, <<DO>>, <<NOP>>, <<0>>, <<1>>, <<OptTType>>, <<65>>,
      <<IAC, SE>>, <<IAC, DO, OptTType>>, <<IAC, SB, OptTType>>, <<IAC, SB, OptNAWS>>,
      <<IAC, SB, OptTType, 1, IAC, SE>>, <<0, 80, 0, 24>> }

RECURSIVE Concats(_, _)
Concats(chunks, n) ==
    IF n = 0 THEN {<<>>}
    ELSE LET shorter == Concats(chunks, n - 1)
         IN  shorter \cup {b \o c : b \in shorter, c \in chunks}

\* Every negotiation triplet IAC <command> <option>
Triplets == {<<IAC, c, o>> : c \in {DO, DONT, WILL, WONT}, o \in 0..255}

ScanBuffers == Concats(Chunks, MaxChunks) \cup Triplets

\* Subnegotiation payloads: an option byte and up to MaxSubData bytes after it
MaxSubData == 4
SubDataBytes == {0, 1, 2, OptTType, 39, 80, 200}
PayloadOptions == {1, OptTType, OptNAWS, OptTSpeed, OptNewEnv, 200}

RECURSIVE Strings(_, _)
Strings(alphabet, n) ==
    IF n = 0 THEN {<<>>}
    ELSE LET shorter == Strings(alphabet, n - 1)
         IN  shorter \cup {s \o <<c>> : s \in shorter, c \in alphabet}

\* Payloads beyond those: a terminal name, a window size followed by a
\* further byte, and the largest window
LongPayloads ==
    { <<OptTType, 0>> \o StrXterm,
      <<OptNAWS, 0, 80, 0, 24, 1>>,
      <<OptNAWS, 255, 255, 255, 255>> }

Payloads ==
    {<<>>} \cup LongPayloads
        \cup {<<o>> \o s : o \in PayloadOptions, s \in Strings(SubDataBytes, MaxSubData)}

\* ------------------------------------------------------------------------
\* The scanner and the payload decoder as called functions

SessionIdle ==
    /\ negotiation_complete = FALSE
    /\ message_count = 0
    /\ k = 0
    /\ sent = <<>>

InitCore ==
    /\ stream = <<>>
    /\ reads = 0
    /\ \/ pc = "scan" /\ data \in ScanBuffers /\ sub_arg = <<>>
       \/ pc = "decode" /\ data = <<>> /\ sub_arg \in Payloads
    /\ i = 0
    /\ messages = <<>>
    /\ sub_result = <<>>
    /\ SessionIdle

\* The effect of one iteration with outcome r; an IndexError leaves the scan
Iterate(r) ==
    /\ pc' = IF r.err THEN "raised" ELSE "scan"
    /\ i' = r.i
    /\ messages' = messages \o r.emit
    /\ UNCHANGED <<stream, reads, data, sub_arg, sub_result, negotiation_complete, message_count, k, sent>>

\* IAC <DO|DONT|WILL|WONT> <option>
ScanNegotiation ==
    /\ pc = "scan"
    /\ InBuffer(data, i)
    /\ LoopBody(data, i).branch = "negotiation"
    /\ Iterate(LoopBody(data, i))

\* IAC <DO|DONT|WILL|WONT> at the end of the buffer
ScanNegotiationTruncated ==
    /\ pc = "scan"
    /\ InBuffer(data, i)
    /\ LoopBody(data, i).branch = "negotiation_truncated"
    /\ Iterate(LoopBody(data, i))

\* IAC SB ... IAC SE
ScanSubnegotiation ==
    /\ pc = "scan"
    /\ InBuffer(data, i)
    /\ LoopBody(data, i).branch = "subnegotiation"
    /\ Iterate(LoopBody(data, i))

\* IAC SB with no IAC SE after it
ScanSubnegotiationUnterminated ==
    /\ pc = "scan"
    /\ InBuffer(data, i)
    /\ LoopBody(data, i).branch = "subnegotiation_unterminated"
    /\ Iterate(LoopBody(data, i))

\* IAC <any other byte>
ScanCommand ==
    /\ pc = "scan"
    /\ InBuffer(data, i)
    /\ LoopBody(data, i).branch = "command"
    /\ Iterate(LoopBody(data, i))

\* IAC as the last byte of the buffer
ScanIacTruncated ==
    /\ pc = "scan"
    /\ InBuffer(data, i)
    /\ LoopBody(data, i).branch = "iac_truncated"
    /\ Iterate(LoopBody(data, i))

\* A run of bytes other than IAC
ScanData ==
    /\ pc = "scan"
    /\ InBuffer(data, i)
    /\ LoopBody(data, i).branch = "data"
    /\ Iterate(LoopBody(data, i))

ScanReturn ==
    /\ pc = "scan"
    /\ ~InBuffer(data, i)
    /\ pc' = "done"
    /\ UNCHANGED <<stream, reads, data, i, messages, sub_arg, sub_result,
                   negotiation_complete, message_count, k, sent>>

DecodeCall ==
    /\ pc = "decode"
    /\ LET r == decode_subnegotiation(sub_arg) IN
        /\ pc' = IF r.err THEN "raised" ELSE "decoded"
        /\ sub_result' = r.text
    /\ UNCHANGED <<stream, reads, data, i, messages, sub_arg,
                   negotiation_complete, message_count, k, sent>>

NextCore ==
    \/ ScanNegotiation
    \/ ScanNegotiationTruncated
    \/ ScanSubnegotiation
    \/ ScanSubnegotiationUnterminated
    \/ ScanCommand
    \/ ScanIacTruncated
    \/ ScanData
    \/ ScanReturn
    \/ DecodeCall

SpecCore == InitCore /\ [][NextCore]_vars

\* ------------------------------------------------------------------------
\* The responder: the receive loop of main()

\* send_telnet_command with the command and option bytes swapped
send_telnet_command_swapped(cmd, option) == <<IAC, option, cmd>>

send_telnet_command(cmd, option) == <<IAC, cmd, option>>

send_subnegotiation(option, sub_data) == <<IAC, SB, option>> \o sub_data \o <<IAC, SE>>

\* The byte strings sent for a negotiation event (the if/elif chain)
NegotiationReply(msg) ==
    IF msg.command = StrDO /\ msg.option = StrTerminalType
        THEN <<send_telnet_command(WILL, OptTType)>>
    ELSE IF msg.command = StrDO /\ msg.option = StrSGA
        THEN <<send_telnet_command(WILL, OptSGA)>>
    ELSE IF msg.command = StrDO /\ msg.option = StrNAWS
        THEN <<send_telnet_command(WILL, OptNAWS)>>
    ELSE IF msg.command = StrDO /\ msg.option = StrLinemode
        THEN <<send_telnet_command(WILL, OptLinemode)>>
    ELSE IF msg.command = StrWILL /\ msg.option = StrSGA
        THEN <<send_telnet_command(DO, OptSGA)>>
    ELSE IF msg.command = StrWILL /\ msg.option = StrTerminalType
        THEN <<send_telnet_command(DO, OptTType)>>
    ELSE IF msg.command = StrWILL /\ msg.option = StrNAWS
        THEN <<send_telnet_command(DO, OptNAWS)>>
    ELSE IF msg.command = StrWILL /\ msg.option = StrLinemode
        THEN <<send_telnet_command(DO, OptLinemode)>>
    ELSE <<>>

\* The byte strings sent for a subnegotiation event
SubnegotiationReply(msg) ==
    IF Contains(msg.data, StrTTypeSendMark)
    THEN <<send_subnegotiation(OptTType, <<0>> \o StrXterm)>>
    ELSE <<>>

\* DataCompletes without .lower()
DataCompletesCaseSensitive(msg) ==
    Contains(msg.data, StrWelcome) \/ Contains(msg.data, StrLogin)

\* "Welcome" in msg['data'] or "login:" in msg['data'].lower()
DataCompletes(msg) ==
    Contains(msg.data, StrWelcome) \/ Contains(Lower(msg.data), StrLogin)

\* EnoughMessages with ">=" for ">"
EnoughMessagesInclusive(count) == count >= 5

\* "if message_count > 5" on a read timeout
TimeoutThreshold == 5
EnoughMessages(count) == count > TimeoutThreshold

\* What one recv() can return: up to MaxFrames of these back to back, or any
\* single negotiation triplet
MaxFrames == 2
Frames ==
    { <<IAC, DO, OptTType>>, <<IAC, DO, OptSGA>>, <<IAC, WILL, OptLinemode>>,
      <<IAC, WONT, OptNAWS>>, <<IAC, NOP>>, <<IAC>>,
      <<IAC, SB, OptTType, 1, IAC, SE>>, <<IAC, SB, OptTType, 0, 65, IAC, SE>>,
      <<IAC, SB, OptNAWS, 0, 80, 0, 24, IAC, SE>>,
      StrWelcome, <<76, 111, 103, 105, 110, 58, 10>>, <<104, 105>> }

ReadBuffers == (Concats(Frames, MaxFrames) \ {<<>>}) \cup Triplets

\* parse_telnet_data on each of them (the scan is a function of the buffer)
Scanned == [buf \in ReadBuffers |-> parse_telnet_data(buf)]

\* Reads are modelled until this many events have been counted
MaxMessages == 6

Init ==
    /\ stream = <<>>
    /\ reads = 0
    /\ pc = "recv"
    /\ data = <<>>
    /\ i = 0
    /\ messages = <<>>
    /\ sub_arg = <<>>
    /\ sub_result = <<>>
    /\ negotiation_complete = FALSE
    /\ message_count = 0
    /\ k = 0
    /\ sent = <<send_telnet_command(DO, OptLinemode)>>

\* recv() returns bytes, which are scanned; the for loop starts
Recv ==
    /\ pc = "recv"
    /\ ~negotiation_complete
    /\ message_count < MaxMessages
    /\ \E buf \in ReadBuffers :
        LET parsed == Scanned[buf] IN
            /\ data' = buf
            /\ messages' = parsed.messages
            /\ pc' = IF parsed.err THEN "exit" ELSE "for"
    /\ k' = 0
    /\ sent' = <<>>
    /\ UNCHANGED <<stream, reads, i, sub_arg, sub_result, negotiation_complete, message_count>>

\* recv() returns b"": the peer closed the connection, "break"
RecvClosed ==
    /\ pc = "recv"
    /\ ~negotiation_complete
    /\ data' = <<>>
    /\ pc' = "exit"
    /\ UNCHANGED <<stream, reads, i, messages, sub_arg, sub_result, negotiation_complete,
                   message_count, k, sent>>

\* recv() raises socket.timeout after the 1.0 s set by settimeout: control
\* enters the except clause
RecvTimeout ==
    /\ pc = "recv"
    /\ ~negotiation_complete
    /\ pc' = "timeout"
    /\ UNCHANGED <<stream, reads, data, i, messages, sub_arg, sub_result, negotiation_complete,
                   message_count, k, sent>>

\* The except clause: "if message_count > 5: negotiation_complete = True",
\* then "continue" to the while condition
TimeoutHandler ==
    /\ pc = "timeout"
    /\ negotiation_complete' = EnoughMessages(message_count)
    /\ pc' = "recv"
    /\ UNCHANGED <<stream, reads, data, i, messages, sub_arg, sub_result, message_count, k, sent>>

\* Process answering only the first event counted
ProcessFirstOnly(replies, completes) ==
    /\ message_count' = message_count + 1
    /\ sent' = IF message_count = 0 THEN sent \o replies ELSE sent
    /\ negotiation_complete' = (negotiation_complete \/ completes)
    /\ k' = k + 1
    /\ UNCHANGED <<stream, reads, pc, data, i, messages, sub_arg, sub_result>>

\* Process putting the replies in front of what was sent before
ProcessPrepend(replies, completes) ==
    /\ message_count' = message_count + 1
    /\ sent' = replies \o sent
    /\ negotiation_complete' = (negotiation_complete \/ completes)
    /\ k' = k + 1
    /\ UNCHANGED <<stream, reads, pc, data, i, messages, sub_arg, sub_result>>

\* One pass of "for msg in messages" over event k + 1, with replies its sends
Process(replies, completes) ==
    /\ message_count' = message_count + 1
    /\ sent' = sent \o replies
    /\ negotiation_complete' = (negotiation_complete \/ completes)
    /\ k' = k + 1
    /\ UNCHANGED <<stream, reads, pc, data, i, messages, sub_arg, sub_result>>

ProcessNegotiation ==
    /\ pc = "for"
    /\ k < Len(messages)
    /\ messages[k + 1].type = "negotiation"
    /\ Process(NegotiationReply(messages[k + 1]), FALSE)

ProcessSubnegotiation ==
    /\ pc = "for"
    /\ k < Len(messages)
    /\ messages[k + 1].type = "subnegotiation"
    /\ Process(SubnegotiationReply(messages[k + 1]), FALSE)

ProcessCommand ==
    /\ pc = "for"
    /\ k < Len(messages)
    /\ messages[k + 1].type = "command"
    /\ Process(<<>>, FALSE)

ProcessData ==
    /\ pc = "for"
    /\ k < Len(messages)
    /\ messages[k + 1].type = "data"
    /\ Process(<<>>, DataCompletes(messages[k + 1]))

\* The for loop is exhausted: back to the while condition.  The buffer and its
\* events are dead from here on (the next recv() overwrites them)
EndFor ==
    /\ pc = "for"
    /\ k = Len(messages)
    /\ pc' = "recv"
    /\ data' = <<>>
    /\ messages' = <<>>
    /\ k' = 0
    /\ UNCHANGED <<stream, reads, i, sub_arg, sub_result, negotiation_complete, message_count, sent>>

\* "while not negotiation_complete" fails: the loop is left
LoopExit ==
    /\ pc = "recv"
    /\ negotiation_complete
    /\ pc' = "exit"
    /\ UNCHANGED <<stream, reads, data, i, messages, sub_arg, sub_result, negotiation_complete,
                   message_count, k, sent>>

Next ==
    \/ Recv
    \/ RecvClosed
    \/ RecvTimeout
    \/ TimeoutHandler
    \/ ProcessNegotiation
    \/ ProcessSubnegotiation
    \/ ProcessCommand
    \/ ProcessData
    \/ EndFor
    \/ LoopExit

Spec == Init /\ [][Next]_vars

\* The receive loop with the progress its own control flow guarantees: the
\* program always takes its next step, and every recv() call returns within
\* the socket timeout (with bytes, with b"", or by raising socket.timeout).
\* Nothing obliges the peer to send or to close.
FairSpec == Spec /\ WF_vars(Next)

\* ------------------------------------------------------------------------
\* A scripted peer: one transmission of up to MaxStreamFrames frames that
\* reaches the program as two reads, cut at any interior byte position

MaxStreamFrames == 2
StreamFrames ==
    { <<IAC, DO, OptTType>>, <<IAC, WILL, OptLinemode>>, <<IAC, NOP>>,
      <<IAC, SB, OptTType, 1, IAC, SE>>,
      <<IAC, SB, OptNAWS, IAC, IAC, DO, OptSGA, 0, IAC, SE>>,
      <<IAC, SB, OptTType, 0>> \o StrTTypeSendMark \o <<IAC, SE>>,
      <<104, 105>>, StrLogin }

Transmissions == (Concats(StreamFrames, MaxStreamFrames) \ {<<>>}) \cup Triplets

Cuts(w) == {<<Slice(w, 0, c), Slice(w, c, Len(w))>> : c \in 1..(Len(w) - 1)}

Scripts == UNION {Cuts(w) : w \in Transmissions}

\* ReadAt handing the scanner the previous read again in front of this one
ReadAtWithPrevious(s, n) == IF n > 1 THEN s[n - 1] \o s[n] ELSE s[n]

\* "data = sock.recv(4096)": the n-th read, and nothing of the reads before it
ReadAt(s, n) == s[n]

InitSplit ==
    /\ stream \in Scripts
    /\ reads = 0
    /\ pc = "recv"
    /\ data = <<>>
    /\ i = 0
    /\ messages = <<>>
    /\ sub_arg = <<>>
    /\ sub_result = <<>>
    /\ negotiation_complete = FALSE
    /\ message_count = 0
    /\ k = 0
    /\ sent = <<send_telnet_command(DO, OptLinemode)>>

\* recv() returns the next read of the script, which is scanned on its own
RecvScripted ==
    /\ pc = "recv"
    /\ ~negotiation_complete
    /\ reads < Len(stream)
    /\ LET buf == ReadAt(stream, reads + 1)
           parsed == parse_telnet_data(buf)
       IN  /\ data' = buf
           /\ messages' = parsed.messages
           /\ pc' = IF parsed.err THEN "exit" ELSE "for"
    /\ reads' = reads + 1
    /\ k' = 0
    /\ sent' = <<>>
    /\ UNCHANGED <<stream, i, sub_arg, sub_result, negotiation_complete, message_count>>

\* After its transmission the peer closes: recv() returns b"", "break"
StreamClosed ==
    /\ pc = "recv"
    /\ ~negotiation_complete
    /\ reads = Len(stream)
    /\ data' = <<>>
    /\ pc' = "exit"
    /\ UNCHANGED <<stream, reads, i, messages, sub_arg, sub_result,
                   negotiation_complete, message_count, k, sent>>

NextSplit ==
    \/ RecvScripted
    \/ StreamClosed
    \/ ProcessNegotiation
    \/ ProcessSubnegotiation
    \/ ProcessCommand
    \/ ProcessData
    \/ EndFor
    \/ LoopExit

SpecSplit == InitSplit /\ [][NextSplit]_vars

\* ------------------------------------------------------------------------
\* Properties of the scanner and the payload decoder (under SpecCore)

Raws(msgs) == [n \in 1..Len(msgs) |-> msgs[n].raw]

NoIAC(buf) == \A n \in 1..Len(buf) : buf[n] # IAC

\* No IAC SE pair at or after 0-based position from
NoTerminatorFrom(buf, from) ==
    ~\E j \in from..(Len(buf) - 2) : buf[j + 1] = IAC /\ buf[j + 2] = SE

FirstTerminatorFrom(buf, from) ==
    CHOOSE j \in from..(Len(buf) - 2) :
        /\ buf[j + 1] = IAC /\ buf[j + 2] = SE
        /\ \A h \in from..(j - 1) : ~(buf[h + 1] = IAC /\ buf[h + 2] = SE)

\* IAC SB stands at 0-based position n and no IAC SE pair follows it
UnterminatedAt(buf, n) ==
    /\ n + 1 < Len(buf)
    /\ buf[n + 1] = IAC
    /\ buf[n + 2] = SB
    /\ NoTerminatorFrom(buf, n + 2)

\* The frame grammar read from 0-based position p on: the buffer ends in a
\* truncated command (IAC alone), a truncated negotiation (IAC and one of
\* DO/DONT/WILL/WONT with no option) or a subnegotiation with no IAC SE
RECURSIVE TruncatedFrom(_, _)
TruncatedFrom(buf, p) ==
    IF p >= Len(buf) THEN FALSE
    ELSE IF buf[p + 1] # IAC THEN TruncatedFrom(buf, p + 1)
    ELSE IF p + 1 >= Len(buf) THEN TRUE
    ELSE IF buf[p + 2] \in {DO, DONT, WILL, WONT}
        THEN (IF p + 2 >= Len(buf) THEN TRUE ELSE TruncatedFrom(buf, p + 3))
    ELSE IF buf[p + 2] = SB
        THEN (IF NoTerminatorFrom(buf, p + 2) THEN TRUE
              ELSE TruncatedFrom(buf, FirstTerminatorFrom(buf, p + 2) + 2))
    ELSE TruncatedFrom(buf, p + 2)

TruncatedTail(buf) == TruncatedFrom(buf, 0)

\* C1: for every buffer with no truncated trailing command, negotiation or
\* subnegotiation, the raw bytes of the returned events, concatenated in
\* order, are the buffer.
RoundTrip ==
    (pc = "done" /\ ~TruncatedTail(data)) => Flatten(Raws(messages)) = data

RoundTripWitness ==
    /\ pc = "done"
    /\ ~TruncatedTail(data)
    /\ Len(messages) >= 3
    /\ \E n \in 1..Len(messages) : messages[n].type = "subnegotiation"
    /\ \E n \in 1..Len(messages) : messages[n].type = "data"

\* C2 as stated: for every buffer, every byte lies in exactly one event's raw
\* span and the spans, in order, tile the buffer.
LosslessFraming ==
    pc = "done" => Flatten(Raws(messages)) = data

\* C2 amended: every iteration of the scan that continues either emits exactly
\* one event whose raw span is [i, i') with i < i' <= len, so that successive
\* spans are contiguous, disjoint and increasing from offset 0, or emits
\* nothing, and then the rest of the buffer is a truncated trailing frame
\* that the cursor skips to the end of the buffer.
FramingStep ==
    [][(pc = "scan" /\ pc' = "scan") =>
        /\ i < i'
        /\ i' <= Len(data)
        /\ \/ /\ Len(messages') = Len(messages) + 1
              /\ SubSeq(messages', 1, Len(messages)) = messages
              /\ messages'[Len(messages')].raw = SubSeq(data, i + 1, i')
           \/ /\ messages' = messages
              /\ i' = Len(data)
              /\ TruncatedTail(data)
              /\ TruncatedTail(SubSeq(data, i + 1, Len(data)))]_vars

FramingStepWitness ==
    /\ pc = "done"
    /\ Len(messages) >= 2
    /\ TruncatedTail(data)
    /\ Len(Flatten(Raws(messages))) + 2 <= Len(data)

\* C3 as stated: every buffer with no IAC byte, of any length, yields exactly
\* one event, a Data event whose raw bytes are the buffer.
DataOnlyAnyLength ==
    (pc = "done" /\ NoIAC(data)) =>
        /\ Len(messages) = 1
        /\ messages[1].type = "data"
        /\ messages[1].raw = data

\* C3 amended: every non-empty buffer with no IAC byte yields exactly one
\* event, a Data event whose raw bytes are the buffer; the empty buffer
\* yields no event.
DataOnlyNonEmpty ==
    (pc = "done" /\ NoIAC(data)) =>
        IF Len(data) = 0 THEN messages = <<>>
        ELSE /\ Len(messages) = 1
             /\ messages[1].type = "data"
             /\ messages[1].raw = data

DataOnlyWitness ==
    /\ pc = "done"
    /\ NoIAC(data)
    /\ Len(data) >= 5
    /\ Len(messages) = 1

\* The word the scanner reports for each negotiation command byte
NegotiationWord(c) ==
    IF c = DO THEN <<68, 79>>                   \* "DO"
    ELSE IF c = DONT THEN <<68, 79, 78, 84>>    \* "DONT"
    ELSE IF c = WILL THEN <<87, 73, 76, 76>>    \* "WILL"
    ELSE <<87, 79, 78, 84>>                     \* "WONT"

\* C4: for every command c of DO, DONT, WILL, WONT and every option byte o,
\* the buffer IAC c o yields exactly one event: a Negotiation with command c,
\* the registry name of o, and the three bytes as raw.
NegotiationTriplet ==
    (pc = "done" /\ data \in Triplets) =>
        /\ Len(messages) = 1
        /\ messages[1].type = "negotiation"
        /\ messages[1].command = NegotiationWord(data[2])
        /\ messages[1].option = get_option_name(data[3])
        /\ data[3] = OptTType => messages[1].option = StrTerminalType
        /\ data[3] = OptLinemode => messages[1].option = StrLinemode
        /\ data[3] = 200 => messages[1].option = StrUnknownOption \o <<50, 48, 48>>
        /\ messages[1].raw = data

NegotiationTripletWitness ==
    /\ pc = "done"
    /\ data = <<IAC, WONT, 200>>
    /\ Len(messages) = 1
    /\ messages[1].command = <<87, 79, 78, 84>>

\* C5: when the cursor stands on IAC SB and no IAC SE pair follows, that
\* iteration emits nothing, keeps the events emitted so far and puts the
\* cursor at the end of the buffer; the scan then returns those events
\* without an error.
UnterminatedDropped ==
    [][/\ (pc = "scan" /\ UnterminatedAt(data, i)) =>
            (pc' = "scan" /\ i' = Len(data) /\ messages' = messages)
       /\ (pc = "scan" /\ i = Len(data)) =>
            (pc' = "done" /\ i' = i /\ messages' = messages)]_vars

UnterminatedDroppedWitness ==
    /\ pc = "done"
    /\ Len(messages) >= 1
    /\ UnterminatedAt(data, Len(Flatten(Raws(messages))))
    /\ Len(data) >= Len(Flatten(Raws(messages))) + 4
    /\ \A n \in 1..Len(messages) : messages[n].type # "subnegotiation"

\* C10: no indexed read of parse_telnet_data or decode_subnegotiation is out
\* of range, for any buffer and any payload: neither ever raises.
NoIndexError == pc # "raised"

NoIndexErrorWitness ==
    \/ /\ pc = "done"
       /\ data = <<IAC, SB, IAC, SE>>
       /\ Len(messages) = 1
       /\ messages[1].data = StrEmptySub
    \/ /\ pc = "decoded"
       /\ sub_arg = <<OptNAWS, 0, 80, 0>>

\* ------------------------------------------------------------------------
\* Properties of the responder (under Spec)

\* The event the for loop is about to process
Current == messages[k + 1]

AtEvent == pc = "for" /\ k < Len(messages)

\* The reply table, by the bytes of the offer IAC <command> <option>
AnsweredOptions == {OptTType, OptSGA, OptNAWS, OptLinemode}

TableReply(raw) ==
    IF raw[2] = DO /\ raw[3] \in AnsweredOptions THEN << <<IAC, WILL, raw[3]>> >>
    ELSE IF raw[2] = WILL /\ raw[3] \in AnsweredOptions THEN << <<IAC, DO, raw[3]>> >>
    ELSE <<>>

\* C6: processing a Negotiation event sends what the table gives for its
\* command and option code (WILL o for DO o, DO o for WILL o, o one of 24, 3,
\* 31, 34) and nothing for any other pair; processing a Data or a Command
\* event sends nothing.
ReplyTable ==
    [][AtEvent =>
        /\ Current.type = "negotiation" => sent' = sent \o TableReply(Current.raw)
        /\ Current.type \in {"data", "command"} => sent' = sent]_vars

ReplyTableWitness ==
    /\ pc = "for"
    /\ k = 2
    /\ messages[1].raw = <<IAC, WILL, OptLinemode>>
    /\ messages[2].raw = <<IAC, WONT, OptNAWS>>
    /\ sent = << <<IAC, DO, OptLinemode>> >>

\* What the loop sends for one event
ReplyOf(msg) ==
    IF msg.type = "negotiation" THEN NegotiationReply(msg)
    ELSE IF msg.type = "subnegotiation" THEN SubnegotiationReply(msg)
    ELSE <<>>

\* C7: after the first k events of a read have been processed, the bytes
\* sent are the replies to events 1..k in event order, at most one reply per
\* event; DO Terminal-Type then DO Suppress-Go-Ahead gives WILL Terminal-Type
\* then WILL Suppress-Go-Ahead.
RepliesInEventOrder ==
    pc = "for" =>
        /\ sent = Flatten([n \in 1..k |-> ReplyOf(messages[n])])
        /\ \A n \in 1..Len(messages) : Len(ReplyOf(messages[n])) <= 1
        /\ Len(sent) <= k
        /\ (k = 2 /\ data = <<IAC, DO, OptTType, IAC, DO, OptSGA>>) =>
                sent = << <<IAC, WILL, OptTType>>, <<IAC, WILL, OptSGA>> >>

RepliesInEventOrderWitness ==
    /\ pc = "for"
    /\ k = 2
    /\ data = <<IAC, DO, OptTType, IAC, DO, OptSGA>>
    /\ sent = << <<IAC, WILL, OptTType>>, <<IAC, WILL, OptSGA>> >>

TTypeSendFrame == <<IAC, SB, OptTType, 1, IAC, SE>>

\* IAC SB 24 0 "xterm" IAC SE
TTypeIsXterm == <<IAC, SB, 24, 0, 120, 116, 101, 114, 109, IAC, SE>>

HasMarker(raw) == Contains(raw, StrWelcome) \/ Contains(Lower(raw), StrLogin)

\* C9: the state starts NEGOTIATING, is COMPLETE once a Data event holding a
\* completion marker has been processed, and never goes from COMPLETE back
\* to NEGOTIATING.
CompleteAbsorbing ==
    /\ ~negotiation_complete
    /\ [][/\ negotiation_complete => negotiation_complete'
          /\ (AtEvent /\ Current.type = "data" /\ HasMarker(Current.raw)) =>
                negotiation_complete']_vars

CompleteAbsorbingWitness ==
    /\ negotiation_complete
    /\ pc = "for"
    /\ k = 2
    /\ messages[1].raw = <<76, 111, 103, 105, 110, 58, 10>>
    /\ messages[2].type = "negotiation"

\* C11: the receive loop is left after finitely many reads and timeouts,
\* whatever the peer does (marker, close, or silence after any number of
\* events).
LoopTerminates == <>(pc = "exit")

\* C13: once the state is COMPLETE no event causes any bytes to be sent, the
\* remaining events of the same read included.
NoReplyOnceComplete ==
    [][negotiation_complete => sent' = sent]_vars

\* C14: the except clause of a read timeout makes the state COMPLETE exactly
\* when more than 5 events have been counted; with 5 or fewer it leaves the
\* state NEGOTIATING; in both cases the counter is unchanged and nothing is
\* sent.
TimeoutCompletesAboveThreshold ==
    [][pc = "timeout" =>
        /\ negotiation_complete' = (message_count > 5)
        /\ message_count <= 5 => ~negotiation_complete'
        /\ message_count' = message_count
        /\ sent' = sent
        /\ pc' = "recv"]_vars

TimeoutCompletesAboveThresholdWitness ==
    /\ pc = "timeout"
    /\ message_count = 5
    /\ ~negotiation_complete

\* ------------------------------------------------------------------------
\* Properties of frames split across two reads (under SpecSplit)

IsTripletFrame(w) == Len(w) = 3 /\ w[1] = IAC /\ w[2] \in {DO, DONT, WILL, WONT}

\* IAC SB ... IAC SE whose first IAC SE pair is its last two bytes
IsBlockFrame(w) ==
    /\ Len(w) >= 4
    /\ w[1] = IAC
    /\ w[2] = SB
    /\ ~NoTerminatorFrom(w, 2)
    /\ FirstTerminatorFrom(w, 2) = Len(w) - 2

BlockPayload(w) == Slice(w, 2, Len(w) - 2)

Transmission == stream[1] \o stream[2]

\* The transmission is one frame, and both reads hold a part of it
FrameIsSplit ==
    /\ Len(stream) = 2
    /\ stream[1] # <<>>
    /\ stream[2] # <<>>
    /\ IsTripletFrame(Transmission) \/ IsBlockFrame(Transmission)

\* The read being processed produced no Negotiation or Subnegotiation event,
\* and nothing has been sent since it arrived
SilentlyLost ==
    /\ \A n \in 1..Len(messages) :
        messages[n].type \notin {"negotiation", "subnegotiation"}
    /\ reads >= 1 => sent = <<>>

\* C12 as stated: a negotiation triplet or IAC SB ... IAC SE block split at
\* any interior position across two reads is silently lost: neither scan
\* emits a Negotiation or Subnegotiation event and no reply is sent.
SplitFrameLost == FrameIsSplit => SilentlyLost

\* C12: a negotiation triplet, or an IAC SB ... IAC SE block whose payload
\* holds no IAC byte, split at any interior position across two reads is
\* silently lost: neither scan emits a Negotiation or Subnegotiation event
\* and no reply is sent.
SplitFrameLostWithoutIAC ==
    (/\ FrameIsSplit
     /\ IsBlockFrame(Transmission) => NoIAC(BlockPayload(Transmission)))
        => SilentlyLost

SplitFrameLostWitness ==
    /\ FrameIsSplit
    /\ IsBlockFrame(Transmission)
    /\ NoIAC(BlockPayload(Transmission))
    /\ reads = 2
    /\ pc = "for"
    /\ Len(messages) >= 1
    /\ k = Len(messages)

\* ------------------------------------------------------------------------
\* Further properties of the scanner and the payload decoder (under SpecCore)

\* The cursor stands on IAC <DO|DONT|WILL|WONT> with the buffer ending there
AtTruncatedNegotiation ==
    /\ pc = "scan"
    /\ i + 2 = Len(data)
    /\ data[i + 1] = IAC
    /\ data[i + 2] \in {DO, DONT, WILL, WONT}

\* The cursor stands on IAC as the last byte of the buffer
AtTrailingIAC ==
    /\ pc = "scan"
    /\ i + 1 = Len(data)
    /\ data[i + 1] = IAC

\* C15: a truncated frame at the end of the buffer emits nothing: on IAC
\* <DO|DONT|WILL|WONT> with no option byte the cursor advances by 2, on a
\* lone trailing IAC it advances by 1, and in both cases the events are
\* left as they were, which is the events of the bytes before the frame.
TruncatedEmitsNothing ==
    [][/\ AtTruncatedNegotiation => i' = i + 2
       /\ AtTrailingIAC => i' = i + 1
       /\ (AtTruncatedNegotiation \/ AtTrailingIAC) =>
            /\ pc' = "scan"
            /\ messages' = messages
            /\ messages' = parse_telnet_data(Slice(data, 0, i)).messages]_vars

TruncatedEmitsNothingWitness ==
    /\ pc = "scan"
    /\ Len(data) >= 3
    /\ i = Len(data)
    /\ data[Len(data) - 1] = IAC
    /\ data[Len(data)] \in {DO, DONT, WILL, WONT}
    /\ messages # <<>>
    /\ Flatten(Raws(messages)) = Slice(data, 0, Len(data) - 2)

\* The cursor stands on IAC SB and an IAC SE pair follows at or after i + 2
AtTerminatedBlock ==
    /\ pc = "scan"
    /\ i + 2 <= Len(data)
    /\ data[i + 1] = IAC
    /\ data[i + 2] = SB
    /\ ~NoTerminatorFrom(data, i + 2)

\* C16: for IAC SB at index i the terminator is the first j >= i + 2 with
\* data[j] = IAC and data[j + 1] = SE, whatever lies between (an IAC IAC
\* pair included): one Subnegotiation event is appended whose decoded payload
\* is that of data[i + 2 .. j), whose option is named from the first payload
\* byte, whose raw is data[i .. j + 2), and the scan resumes at j + 2.
FirstTerminatorEndsBlock ==
    [][AtTerminatedBlock =>
        LET j == FirstTerminatorFrom(data, i + 2)
            payload == Slice(data, i + 2, j)
            msg == messages'[Len(messages')]
        IN  /\ pc' = "scan"
            /\ i' = j + 2
            /\ Len(messages') = Len(messages) + 1
            /\ SubSeq(messages', 1, Len(messages)) = messages
            /\ msg.type = "subnegotiation"
            /\ msg.raw = Slice(data, i, j + 2)
            /\ msg.data = decode_subnegotiation(payload).text
            /\ payload # <<>> => msg.option = get_option_name(payload[1])]_vars

\* A block whose payload ends in IAC has just been emitted: its terminator
\* is the IAC SE pair that starts right after another IAC
FirstTerminatorEndsBlockWitness ==
    /\ pc = "scan"
    /\ messages # <<>>
    /\ LET msg == messages[Len(messages)] IN
        /\ msg.type = "subnegotiation"
        /\ Len(msg.raw) >= 6
        /\ msg.raw[Len(msg.raw) - 2] = IAC
        /\ msg.raw = Slice(data, i - Len(msg.raw), i)

\* The bytes after the option byte of a decoded payload
SubData == Tail(sub_arg)

Str80x24 == <<87, 105, 110, 100, 111, 119, 32, 83, 105, 122, 101, 58, 32, 56, 48, 120, 50, 52>>  \* "Window Size: 80x24"

\* C17: for option 31 with at least 4 bytes b0..b3 after the option byte the
\* result reports width 256*b0+b1 and height 256*b2+b3, both in 0..65535,
\* whatever follows the fourth byte; with fewer than 4 bytes the result is the
\* dump of those bytes; [0, 80, 0, 24] reports 80x24.
WindowSizeBigEndian ==
    (pc \in {"decoded", "raised"} /\ sub_arg # <<>> /\ sub_arg[1] = OptNAWS) =>
        /\ pc = "decoded"
        /\ IF Len(SubData) >= 4 THEN
               LET width == 256 * SubData[1] + SubData[2]
                   height == 256 * SubData[3] + SubData[4]
               IN  /\ width \in 0..65535
                   /\ height \in 0..65535
                   /\ sub_result = StrWinSize \o Dec(width) \o StrX \o Dec(height)
           ELSE sub_result = StrWinSizeSub \o BytesRepr(SubData)
        /\ Slice(SubData, 0, 4) = <<0, 80, 0, 24>> => sub_result = Str80x24

\* 80x24 decoded from a payload with a fifth byte after the four size bytes
WindowSizeBigEndianWitness ==
    /\ pc = "decoded"
    /\ sub_arg = <<OptNAWS, 0, 80, 0, 24, 1>>
    /\ sub_result = Str80x24

NamedCommands == {NOP, BRK, DM, IP, AO, AYT, EC, EL, GA}

\* C19 as stated: every Command event is IAC x with x one of NOP, BRK, DM,
\* IP, AO, AYT, EC, EL, GA; none is emitted for IAC and any other byte.
CommandsAreNamed ==
    \A n \in 1..Len(messages) :
        messages[n].type = "command" =>
            /\ Len(messages[n].raw) = 2
            /\ messages[n].raw[1] = IAC
            /\ messages[n].raw[2] \in NamedCommands

\* The cursor stands on IAC followed by a byte that is none of DO, DONT,
\* WILL, WONT, SB
AtCommand ==
    /\ pc = "scan"
    /\ i + 2 <= Len(data)
    /\ data[i + 1] = IAC
    /\ data[i + 2] \notin {DO, DONT, WILL, WONT, SB}

\* C19: every Command event is a 2-byte sequence IAC x where x is any byte
\* other than DO, DONT, WILL, WONT and SB, and one is emitted whenever the
\* scan meets IAC followed by such a byte (IAC IAC, IAC SE and IAC with a
\* byte below 240 included), named by decode_command.
CommandsAreOtherBytes ==
    [][/\ \A n \in 1..Len(messages') :
            messages'[n].type = "command" =>
                /\ Len(messages'[n].raw) = 2
                /\ messages'[n].raw[1] = IAC
                /\ messages'[n].raw[2] \notin {DO, DONT, WILL, WONT, SB}
                /\ messages'[n].command = decode_command(messages'[n].raw[2])
       /\ AtCommand =>
            /\ i' = i + 2
            /\ Len(messages') = Len(messages) + 1
            /\ messages'[Len(messages')].type = "command"
            /\ messages'[Len(messages')].raw = <<IAC, data[i + 2]>>]_vars

\* A Command event for IAC and a byte below 240 has been emitted
CommandsAreOtherBytesWitness ==
    /\ pc = "scan"
    /\ \E n \in 1..Len(messages) :
        /\ messages[n].type = "command"
        /\ messages[n].raw[2] < SE
        /\ messages[n].command = StrUnknownCommand \o Dec(messages[n].raw[2])

\* C20: the scan terminates: every iteration moves the cursor forward by at
\* least 1 and never past len(data), and the scan returns with i = len(data)
\* (so after at most len(data) iterations, each emitting at most one event).
CursorAdvances ==
    /\ (pc = "scan" /\ InBuffer(data, i)) =>
        /\ LoopBody(data, i).i >= i + 1
        /\ LoopBody(data, i).i <= Len(data)
        /\ Len(LoopBody(data, i).emit) <= 1
    /\ pc \in {"scan", "done"} => (i <= Len(data) /\ Len(messages) <= i)
    /\ pc = "done" => i = Len(data)

\* A scan that has returned after an unterminated block moved the cursor
\* from its IAC SB to the end of a buffer with at least two bytes after them
CursorAdvancesWitness ==
    /\ pc = "done"
    /\ i = Len(data)
    /\ messages # <<>>
    /\ \E n \in 1..(Len(data) - 3) : UnterminatedAt(data, n)

\* ------------------------------------------------------------------------
\* Further properties of the responder

\* The reply to an event, from the event's own fields and nothing else
EventReply(msg) ==
    IF msg.type = "negotiation" THEN TableReply(msg.raw)
    ELSE IF msg.type = "subnegotiation" /\ Contains(msg.data, StrTTypeSendMark)
        THEN <<TTypeIsXterm>>
    ELSE <<>>

\* C21: what is sent for an event is a function of that event alone, whatever
\* the event counter and whatever came before; an offer identical to the
\* event before it gets the reply that event got.
ReplyDependsOnEventOnly ==
    [][AtEvent =>
        LET reply == EventReply(Current) IN
            /\ sent' = sent \o reply
            /\ (k >= 1 /\ messages[k] = Current) =>
                /\ Len(sent) >= Len(reply)
                /\ SubSeq(sent, Len(sent) - Len(reply) + 1, Len(sent)) = reply]_vars

\* The same answered offer twice in one read, after events of earlier reads:
\* both got the same reply
ReplyDependsOnEventOnlyWitness ==
    /\ pc = "for"
    /\ k = 2
    /\ message_count >= 4
    /\ messages[1] = messages[2]
    /\ messages[1].type = "negotiation"
    /\ Len(sent) = 2
    /\ sent[1] = sent[2]

\* C22: a Terminal-Type IS subnegotiation is sent only when the event being
\* processed is a Subnegotiation whose option byte is 24 and whose
\* sub-command byte is SEND (1).
TerminalTypeIsOnlyForSend ==
    [][(/\ AtEvent
        /\ Len(sent') = Len(sent) + 1
        /\ sent'[Len(sent')] = TTypeIsXterm) =>
            /\ Current.type = "subnegotiation"
            /\ Len(Current.raw) >= 6
            /\ Current.raw[3] = OptTType
            /\ Current.raw[4] = 1]_vars

\* ------------------------------------------------------------------------
\* Chunking at a frame boundary (under SpecSplit)

EventsOf(buf) == parse_telnet_data(buf).messages

\* The events of two scans put together, a Data run ending the first and a
\* Data run starting the second counted as the one run they form
JoinEvents(ea, eb) ==
    IF ea # <<>> /\ eb # <<>> /\ ea[Len(ea)].type = "data" /\ eb[1].type = "data"
    THEN LET run == ea[Len(ea)].raw \o eb[1].raw
         IN  SubSeq(ea, 1, Len(ea) - 1) \o <<DataMsg(run, 0, Len(run))>> \o Tail(eb)
    ELSE ea \o eb

RepliesTo(msgs) == Flatten([n \in 1..Len(msgs) |-> EventReply(msgs[n])])

\* Scanning the two reads one after the other gives the events of scanning
\* their concatenation
ScanTransparent ==
    JoinEvents(EventsOf(stream[1]), EventsOf(stream[2]))
        = EventsOf(stream[1] \o stream[2])

\* What the responder has sent when it stops is what it sends for the events
\* of the concatenation
RepliesTransparent ==
    /\ (pc = "for" /\ k = Len(messages)) =>
            sent = RepliesTo(EventsOf(stream[reads]))
    /\ pc = "exit" =>
            (IF reads = 2 THEN RepliesTo(EventsOf(stream[1])) \o sent ELSE sent)
                = RepliesTo(EventsOf(stream[1] \o stream[2]))

\* C23: when the first of two reads ends in no truncated command,
\* negotiation or subnegotiation, scanning the reads one after the other
\* gives the events of scanning their concatenation (a Data run ending the
\* first and one starting the second being two events instead of one), and
\* the responder's replies are the same in both cases.
ChunkingTransparent ==
    (Len(stream) = 2 /\ ~TruncatedTail(stream[1])) =>
        (ScanTransparent /\ RepliesTransparent)

====
